---- MODULE Spec2Model ----
(***************************************************************************)
(* Model of encode-time's `Et` (src/src/lib.rs): a time::Timespec wrapper  *)
(* with a serde (key-value) codec, a rustc_serialize (positional) codec    *)
(* and a Display/Debug rendering.                                          *)
(*                                                                         *)
(* Integer widths are scaled down: I32 stands for i32, I64 for i64 and     *)
(* NsecPerSec for time's NSEC_PER_SEC (1_000_000_000), keeping the order   *)
(*   0 < NsecPerSec <= max(I32) < max(I64).                                *)
(***************************************************************************)
EXTENDS Integers, Sequences, FiniteSets, TLC

\* ---------------------------------------------------------------- bounds
NsecPerSec == 2
WidthGap == 1
MaxKeys == 3
MaxVisits == 4

I32Max == NsecPerSec
I64Max == I32Max + WidthGap
I32 == (-I32Max)..I32Max
I64 == (-I64Max)..I64Max
NsecValid == 0..(NsecPerSec - 1)
\* seconds values gmtime can turn into calendar fields; the extreme ones overflow
CalendarSecs == (-(I64Max - 1))..(I64Max - 1)

\* ------------------------------------------------------------ data model
\* Timespec { sec: i64, nsec: i32 }; Et wraps it verbatim (From, Deref).
Et == [sec : I64, nsec : I32]
NoEt == [sec |-> 0, nsec |-> -I32Max - 1]

ET_FIELDS == <<"sec", "nsec">>
\* "foo" stands for every key string other than the two field names
Keys == {"sec", "nsec", "foo"}
EofKey == "<eof>"
Eof == [key |-> EofKey, value |-> 0]
Item(k, v) == [key |-> k, value |-> v]

Ok(ts) == [kind |-> "ok", ts |-> ts]
Err(e, f) == [kind |-> "err", err |-> e, field |-> f]
Panic == [kind |-> "panic"]
Pending == [kind |-> "none"]

\* time::Timespec::new as called at lines 155 and 174: it asserts
\* 0 <= nsec < NSEC_PER_SEC and panics otherwise.
TimespecNew(sec, nsec) ==
    IF nsec \in NsecValid THEN Ok([sec |-> sec, nsec |-> nsec]) ELSE Panic

\* ------------------------------------------------- serde::Serialize (48-82)
NewMapVisitor == [state |-> 0, emitted |-> <<>>, last |-> "Some", calls |-> 0]

\* EtMapVisitor::visit without the terminal arm: it keeps emitting
MapVisitNoStop(v, value, writeOk) ==
    LET c == [v EXCEPT !.calls = @ + 1] IN
    IF v.state = 0
    THEN [c EXCEPT !.state = 1, !.last = "Some",
                   !.emitted = Append(@, Item("sec", value.sec))]
    ELSE [c EXCEPT !.state = @ + 1, !.last = "Some",
                   !.emitted = Append(@, Item("nsec", value.nsec))]

\* EtMapVisitor::visit; writeOk is the outcome of serialize_struct_elt.
MapVisit(v, value, writeOk) ==
    LET c == [v EXCEPT !.calls = @ + 1] IN
    CASE v.state = 0 ->
           IF writeOk
           THEN [c EXCEPT !.state = 1, !.last = "Some",
                          !.emitted = Append(@, Item("sec", value.sec))]
           ELSE [c EXCEPT !.state = 1, !.last = "Err"]
      [] v.state = 1 ->
           IF writeOk
           THEN [c EXCEPT !.state = 2, !.last = "Some",
                          !.emitted = Append(@, Item("nsec", value.nsec))]
           ELSE [c EXCEPT !.state = 2, !.last = "Err"]
      [] OTHER -> [c EXCEPT !.last = "None"]

\* ----------------------------------------------- serde::Deserialize (84-157)
\* visit_str with the names routed straight
EtFieldOfStraight(value) ==
    CASE value = "sec" -> [ok |-> TRUE, field |-> "Sec"]
      [] value = "nsec" -> [ok |-> TRUE, field |-> "NSec"]
      [] OTHER -> [ok |-> FALSE, field |-> value]

\* visit_str that takes any other name for a field
EtFieldOfLenient(value) ==
    CASE value = "sec" -> [ok |-> TRUE, field |-> "NSec"]
      [] OTHER -> [ok |-> TRUE, field |-> "Sec"]

\* FieldVisitor::visit_str
EtFieldOf(value) ==
    CASE value = "sec" -> [ok |-> TRUE, field |-> "NSec"]
      [] value = "nsec" -> [ok |-> TRUE, field |-> "Sec"]
      [] OTHER -> [ok |-> FALSE, field |-> value]

\* the integer type of the local a field's value is read into (lines 137, 138,
\* fixed by Timespec::new(sec: i64, nsec: i32))
SlotType(field) == IF field = "Sec" THEN I64 ELSE I32

\* visitor.visit_value() into a slot: an integer that does not fit the slot's
\* type is refused by the integer visitor
VisitValue(field, value) ==
    IF value \in SlotType(field)
    THEN [ok |-> TRUE, v |-> value]
    ELSE [ok |-> FALSE, v |-> 0]

\* visitor.missing_field(name): the MapVisitor default reports the error
MissingField(name) == Err("MissingField", name)

\* the locals of EtVisitor::visit_map at its start (lines 132-133)
NewVisit(src) ==
    [pc |-> "loop", src |-> src, hist |-> <<>>, sec |-> <<>>, nsec |-> <<>>,
     valuesRead |-> 0, endCalls |-> 0, eof |-> FALSE, endFailed |-> FALSE,
     res |-> Pending]

\* one iteration of the loop of lines 135-141 on the next thing visit_key sees
LoopIter(d, item) ==
    IF item.key = EofKey
    THEN [d EXCEPT !.eof = TRUE, !.pc = "chk_sec"]
    ELSE LET f == EtFieldOf(item.key)
             d1 == [d EXCEPT !.hist = Append(@, item)]
         IN IF ~f.ok
            THEN [d1 EXCEPT !.pc = "done", !.res = Err("UnknownField", f.field)]
            ELSE LET v == VisitValue(f.field, item.value)
                     d2 == [d1 EXCEPT !.valuesRead = @ + 1]
                 IN IF ~v.ok
                    THEN [d2 EXCEPT !.pc = "done",
                                    !.res = Err("Malformed", item.key)]
                    ELSE IF f.field = "Sec"
                         THEN [d2 EXCEPT !.sec = <<v.v>>]
                         ELSE [d2 EXCEPT !.nsec = <<v.v>>]

\* lines 143-146
MatchSec(d) ==
    IF d.sec # <<>>
    THEN [d EXCEPT !.pc = "chk_nsec"]
    ELSE [d EXCEPT !.pc = "done", !.res = MissingField("sec")]

\* lines 148-151 going on to the return without the terminator
MatchNsecSkipEnd(d) ==
    IF d.nsec # <<>>
    THEN [d EXCEPT !.pc = "ret"]
    ELSE [d EXCEPT !.pc = "done", !.res = MissingField("nsec")]

\* lines 148-151
MatchNsec(d) ==
    IF d.nsec # <<>>
    THEN [d EXCEPT !.pc = "end"]
    ELSE [d EXCEPT !.pc = "done", !.res = MissingField("nsec")]

\* line 153: try!(visitor.end())
EndStep(d, ok) ==
    IF ok
    THEN [d EXCEPT !.endCalls = @ + 1, !.pc = "ret"]
    ELSE [d EXCEPT !.endCalls = @ + 1, !.endFailed = TRUE, !.pc = "done",
                   !.res = Err("Malformed", "")]

\* line 155
Construct(d) ==
    [d EXCEPT !.pc = "done", !.res = TimespecNew(d.sec[1], d.nsec[1])]

\* EtVisitor::visit_map run to its end on a whole input
RECURSIVE VisitMap(_, _, _)
VisitMap(d, input, endOk) ==
    CASE d.pc = "loop" ->
           VisitMap(LoopIter(d, IF Len(d.hist) < Len(input)
                                THEN input[Len(d.hist) + 1] ELSE Eof),
                    input, endOk)
      [] d.pc = "chk_sec" -> VisitMap(MatchSec(d), input, endOk)
      [] d.pc = "chk_nsec" -> VisitMap(MatchNsec(d), input, endOk)
      [] d.pc = "end" -> VisitMap(EndStep(d, endOk), input, endOk)
      [] d.pc = "ret" -> VisitMap(Construct(d), input, endOk)
      [] OTHER -> d

\* ------------------------------------- rustc_serialize codec (159-176)
\* Encodable::encode: emit_i64(sec) then emit_i32(nsec); failAt names the
\* write the encoder fails (0: none).
EncodeEt(ts, failAt) ==
    CASE failAt = 1 -> [stream |-> <<>>, res |-> Err("Encoder", "sec")]
      [] failAt = 2 -> [stream |-> <<[w |-> 64, v |-> ts.sec]>>,
                        res |-> Err("Encoder", "nsec")]
      [] OTHER -> [stream |-> <<[w |-> 64, v |-> ts.sec],
                                [w |-> 32, v |-> ts.nsec]>>,
                   res |-> Ok(ts)]

\* Decodable::decode: read_i64, read_i32, Timespec::new
DecodeEt(stream) ==
    IF Len(stream) < 1 \/ stream[1].w # 64
    THEN Err("Malformed", "sec")
    ELSE IF Len(stream) < 2 \/ stream[2].w # 32
         THEN Err("Malformed", "nsec")
         ELSE TimespecNew(stream[1].v, stream[2].v)

\* ------------------------------------------------ Display / Debug (36-46)
\* time::at_utc: gmtime on the seconds; it panics when the conversion fails
AtUtc(ts) ==
    IF ts.sec \in CalendarSecs
    THEN [kind |-> "ok", tm |-> [secs |-> ts.sec]]
    ELSE Panic

\* time::strftime("%FT%TZ", tm): whole seconds only, the nanoseconds are dropped
Strftime(tm) == [ok |-> TRUE, s |-> <<"%FT%TZ", tm.secs>>]

\* <Et as Display>::fmt; writeOk is the outcome of the formatter's write
DisplayFmt(ts, writeOk) ==
    LET tm == AtUtc(ts) IN
    IF tm.kind = "panic" THEN Panic
    ELSE LET s == Strftime(tm.tm) IN
         IF ~s.ok THEN Panic
         ELSE IF writeOk THEN [kind |-> "written", text |-> s.s]
              ELSE [kind |-> "err", err |-> "fmt::Error"]

\* <Et as Debug>::fmt
DebugFmt(ts, writeOk) == DisplayFmt(ts, writeOk)

\* ------------------------------------------------------------------ state
VARIABLES op, t, ser, de, wire, pos, out

vars == <<op, t, ser, de, wire, pos, out>>

Init ==
    /\ op = "idle"
    /\ t = NoEt
    /\ ser = NewMapVisitor
    /\ de = NewVisit("none")
    /\ wire = <<>>
    /\ pos = [stream |-> <<>>, res |-> Pending]
    /\ out = Pending

\* a well-formed key-value structure: each field at most once, either order,
\* each value of its field's declared type
StructInputs ==
    {<<>>}
    \cup {<<Item("sec", a)>> : a \in I64}
    \cup {<<Item("nsec", b)>> : b \in I32}
    \cup {<<Item("sec", p[1]), Item("nsec", p[2])>> : p \in I64 \X I32}
    \cup {<<Item("nsec", p[2]), Item("sec", p[1])>> : p \in I64 \X I32}

PosItems == [w : {64}, v : I64] \cup [w : {32}, v : I32]
PosStreams == {<<>>} \cup {<<x>> : x \in PosItems}
              \cup {<<p[1], p[2]>> : p \in PosItems \X PosItems}

\* what visit_key can see next
NextItems ==
    IF de.src = "stream"
    THEN {Eof} \cup (IF Len(de.hist) < MaxKeys
                     THEN {Item(k, v) : k \in Keys, v \in I64} ELSE {})
    ELSE {IF Len(de.hist) < Len(wire) THEN wire[Len(de.hist) + 1] ELSE Eof}

\* what visitor.end() can answer: a well-formed structure ends properly
EndOutcomes == IF de.src = "stream" THEN BOOLEAN ELSE {TRUE}

\* ---------------------------------------------------------------- actions
\* Et::serialize: serialize_struct("Et", EtMapVisitor { value, state: 0 })
Serialize ==
    /\ op = "idle"
    /\ \E ts \in Et : t' = ts
    /\ op' = "ser"
    /\ ser' = NewMapVisitor
    /\ UNCHANGED <<de, wire, pos, out>>

\* the serializer calls EtMapVisitor::visit
Visit ==
    /\ op = "ser"
    /\ ser.last # "Err"
    /\ ser.calls < MaxVisits
    /\ \E writeOk \in BOOLEAN : ser' = MapVisit(ser, t, writeOk)
    /\ UNCHANGED <<op, t, de, wire, pos, out>>

\* Et::deserialize on what the serializer emitted
DeserializeEmitted ==
    /\ op = "ser"
    /\ ser.last = "None"
    /\ op' = "de"
    /\ wire' = ser.emitted
    /\ de' = NewVisit("ser")
    /\ UNCHANGED <<t, ser, pos, out>>

\* Et::deserialize on a well-formed structure
DeserializeStruct ==
    /\ op = "idle"
    /\ op' = "de"
    /\ \E w \in StructInputs : wire' = w
    /\ de' = NewVisit("struct")
    /\ UNCHANGED <<t, ser, pos, out>>

\* Et::deserialize on an arbitrary key-value stream
DeserializeStream ==
    /\ op = "idle"
    /\ op' = "de"
    /\ de' = NewVisit("stream")
    /\ UNCHANGED <<t, ser, wire, pos, out>>

VisitKey ==
    /\ op = "de"
    /\ de.pc = "loop"
    /\ \E item \in NextItems : de' = LoopIter(de, item)
    /\ UNCHANGED <<op, t, ser, wire, pos, out>>

CheckSec ==
    /\ op = "de"
    /\ de.pc = "chk_sec"
    /\ de' = MatchSec(de)
    /\ UNCHANGED <<op, t, ser, wire, pos, out>>

CheckNsec ==
    /\ op = "de"
    /\ de.pc = "chk_nsec"
    /\ de' = MatchNsec(de)
    /\ UNCHANGED <<op, t, ser, wire, pos, out>>

End ==
    /\ op = "de"
    /\ de.pc = "end"
    /\ \E ok \in EndOutcomes : de' = EndStep(de, ok)
    /\ UNCHANGED <<op, t, ser, wire, pos, out>>

Return ==
    /\ op = "de"
    /\ de.pc = "ret"
    /\ de' = Construct(de)
    /\ UNCHANGED <<op, t, ser, wire, pos, out>>

\* Et::encode
Encode ==
    /\ op = "idle"
    /\ op' = "enc"
    /\ \E ts \in Et, failAt \in 0..2 :
          /\ t' = ts
          /\ pos' = EncodeEt(ts, failAt)
    /\ UNCHANGED <<ser, de, wire, out>>

\* Et::decode on what Et::encode wrote
DecodeEncoded ==
    /\ op = "enc"
    /\ pos.res.kind = "ok"
    /\ op' = "dec"
    /\ pos' = [pos EXCEPT !.res = DecodeEt(pos.stream)]
    /\ UNCHANGED <<t, ser, de, wire, out>>

\* Et::decode on an arbitrary positional stream
DecodeStream ==
    /\ op = "idle"
    /\ op' = "dec"
    /\ \E s \in PosStreams : pos' = [stream |-> s, res |-> DecodeEt(s)]
    /\ UNCHANGED <<t, ser, de, wire, out>>

Display ==
    /\ op = "idle"
    /\ op' = "fmt"
    /\ \E ts \in Et, writeOk \in BOOLEAN :
          /\ t' = ts
          /\ out' = DisplayFmt(ts, writeOk)
    /\ UNCHANGED <<ser, de, wire, pos>>

Debug ==
    /\ op = "idle"
    /\ op' = "dbg"
    /\ \E ts \in Et, writeOk \in BOOLEAN :
          /\ t' = ts
          /\ out' = DebugFmt(ts, writeOk)
    /\ UNCHANGED <<ser, de, wire, pos>>

Next ==
    \/ Serialize
    \/ Visit
    \/ DeserializeEmitted
    \/ DeserializeStruct
    \/ DeserializeStream
    \/ VisitKey
    \/ CheckSec
    \/ CheckNsec
    \/ End
    \/ Return
    \/ Encode
    \/ DecodeEncoded
    \/ DecodeStream
    \/ Display
    \/ Debug

Spec == Init /\ [][Next]_vars

\* ------------------------------------------------------------- properties
HasKey(input, k) == \E i \in 1..Len(input) : input[i].key = k
ValueOf(input, k) == input[CHOOSE i \in 1..Len(input) : input[i].key = k].value
KnownKeys == {ET_FIELDS[i] : i \in 1..Len(ET_FIELDS)}
DecodeDone == op = "de" /\ de.pc = "done"
\* a finished decode of a well-formed structure that holds both fields
BothFieldsDone == DecodeDone /\ de.src = "struct" /\ Len(wire) = 2

\* C1: key-value round trip: deserializing what serialize emitted for t
\* succeeds and yields a timestamp equal to t.
C1_KeyValueRoundTrip ==
    (DecodeDone /\ de.src = "ser") => de.res = Ok(t)

\* C2: positional round trip: decode of what encode wrote for t succeeds and
\* yields exactly t, for every seconds and nanoseconds value, also nanoseconds
\* outside [0, NSEC_PER_SEC).
C2_PositionalRoundTrip ==
    (op = "dec" /\ t # NoEt) => pos.res = Ok(t)

\* C3: emission order of EtMapVisitor::visit: with no write failing the first
\* call emits exactly ("sec", seconds), the second exactly ("nsec",
\* nanoseconds), every later call emits nothing and reports the end; the state
\* counter never exceeds 2.
C3_EmissionOrder ==
    LET expected == <<Item("sec", t.sec), Item("nsec", t.nsec)>>
        n == IF ser.calls < 2 THEN ser.calls ELSE 2
    IN /\ ser.state <= 2
       /\ Len(ser.emitted) <= 2
       /\ ser.emitted = SubSeq(expected, 1, Len(ser.emitted))
       /\ ser.last # "Err" =>
            /\ ser.state = n
            /\ Len(ser.emitted) = n
            /\ (ser.calls \in 1..2 => ser.last = "Some")
            /\ (ser.calls > 2 => ser.last = "None")

C3_Witness ==
    /\ op = "ser"
    /\ ser.calls > 3
    /\ ser.last = "None"
    /\ ser.emitted = <<Item("sec", t.sec), Item("nsec", t.nsec)>>
    /\ t.sec # t.nsec

\* C4: missing-field decode: a well-formed structure in which "sec" or "nsec"
\* never appears does not decode to a timestamp but fails with MissingField.
C4_MissingFieldDecode ==
    (/\ DecodeDone
     /\ de.src = "struct"
     /\ (~HasKey(wire, "sec") \/ ~HasKey(wire, "nsec")))
    => (de.res.kind = "err" /\ de.res.err = "MissingField")

\* C5: unknown-field decode: once a key that is neither "sec" nor "nsec" has
\* been read, decode has failed with UnknownField carrying that key; its value
\* was not read, no further key was consumed and the terminator was not
\* consumed, whatever valid keys came before.
C5_UnknownField ==
    \A i \in 1..Len(de.hist) :
        de.hist[i].key \notin KnownKeys =>
            /\ i = Len(de.hist)
            /\ de.pc = "done"
            /\ de.res = Err("UnknownField", de.hist[i].key)
            /\ de.valuesRead = i - 1
            /\ de.endCalls = 0
            /\ ~de.eof

C5_Witness ==
    /\ DecodeDone
    /\ Len(de.hist) = 3
    /\ de.hist[1].key = "sec"
    /\ de.hist[2].key = "nsec"
    /\ de.hist[3].key = "foo"
    /\ de.res = Err("UnknownField", "foo")

\* C6: key order independence: decoding [("sec", a), ("nsec", b)] and decoding
\* [("nsec", b), ("sec", a)] both succeed and return equal timestamps.
C6_OrderIndependence ==
    BothFieldsDone =>
        LET other == VisitMap(NewVisit("struct"), <<wire[2], wire[1]>>, TRUE)
        IN /\ de.res.kind = "ok"
           /\ other.res = de.res

\* C7: rendering never aborts: Display/Debug either writes the string or
\* returns an error; a failed calendar conversion is returned as an error.
C7_RenderingNeverAborts ==
    op \in {"fmt", "dbg"} =>
        /\ out.kind \in {"written", "err"}
        /\ (t.sec \notin CalendarSecs => out.kind = "err")

C9_TerminatorOrdering ==
    /\ de.endCalls <= 1
    /\ de.endCalls = 1 => (de.eof /\ de.sec # <<>> /\ de.nsec # <<>>)
    /\ de.pc = "ret" => (de.endCalls = 1 /\ ~de.endFailed)
    /\ de.res.kind \in {"ok", "panic"} => (de.endCalls = 1 /\ ~de.endFailed)
    /\ de.endFailed => (de.pc = "done" /\ de.res = Err("Malformed", ""))
    /\ (de.res.kind = "err" /\ de.res.err \in {"UnknownField", "MissingField"})
          => de.endCalls = 0

C9_Witness ==
    /\ DecodeDone
    /\ de.src = "stream"
    /\ de.res.kind = "ok"
    /\ de.endCalls = 1
    /\ Len(de.hist) = 3

\* C10: a MissingField error names a field whose key appeared nowhere in the
\* input.
C10_MissingFieldNamesAbsent ==
    (DecodeDone /\ de.res.kind = "err" /\ de.res.err = "MissingField")
        => ~HasKey(de.hist, de.res.field)

====
